---------------------------- MODULE Spec2Model ----------------------------
(***************************************************************************)
(* owfmodules.spi.flash_write: FlashWrite.run / writing_process and the    *)
(* SPI NOR command helpers (write_enable, erase, wait_status, write_flash) *)
(* of src/owfmodules/spi/flash_write.py, as a state machine.               *)
(*                                                                         *)
(* One session is one call of run().  `pc` is the position in the code.    *)
(* The firmware file, the options and the answers of the device and of     *)
(* the transport are the inputs.  `log` is the history of SPI              *)
(* transactions (one entry per opcode transmitted), `logs` the messages    *)
(* handed to self.logger.handle.                                           *)
(*                                                                         *)
(* Sizes (firmware_size, chunk_size, file position, chunk_addr) are        *)
(* counted in units of 2^scale bytes, so that byte addresses of 2^24 and   *)
(* of 2^32 and more are reached with integers that stay small; one         *)
(* element of `firmware` is the content of one unit of the image.          *)
(*                                                                         *)
(* GPIO accesses (cs.status = ...), SPI.configure and the logger are calls *)
(* into the Octowire library and are taken not to raise; spi transmit and  *)
(* receive may raise at every call.                                        *)
(***************************************************************************)
EXTENDS Integers, Sequences, FiniteSets

\* ------------------------------------------------------------- bounds
MaxSize == 5
MaxChunk == 3
MaxStart == 3
MaxPolls == 2

\* the unit of the sizes of a session is 2^e bytes, e drawn from here
UnitExps == {0, 23, 30}

\* ---------------------------------------------------------- constants
OP_WREN == 6
OP_CE == 199
OP_RDSR == 5
OP_PP == 2
DefaultChunkSize == 256

\* the status bytes the device may answer: ready, busy, write-enable latch
\* set and not busy, both
StatusBytes == {0, 1, 2, 3}

VARIABLES
    pc,               \* position in run / writing_process and its callees
    owf_serial,       \* self.owf_serial after self.connect()
    firmware,         \* content of the firmware file
    stat_ok,          \* os.stat(firmware) succeeds
    open_ok,          \* open(firmware, "rb") succeeds
    scale,            \* sizes are in units of 2^scale bytes
    chunk_size,       \* advanced option chunk_size
    start_chunk_addr, \* option start_chunk
    firmware_size,    \* os.stat(firmware).st_size
    nb_of_chunks,     \* math.ceil(firmware_size / chunk_size)
    cs,               \* cs.status: 0 asserted, 1 deasserted, -1 not yet driven
    status,           \* last status byte received in wait_status
    reads,            \* receives of the current wait_status call (saturates)
    slept,            \* a time.sleep happened since the last receive
    it,               \* next value of the range(start_chunk_addr, nb_of_chunks)
    sector_nb,        \* loop variable
    chunk_addr,       \* sector_nb * chunk_size
    data,             \* f.read(chunk_size)
    pos,              \* position of the file object f
    ctx,              \* who called write_enable / wait_status
    log,              \* SPI transactions issued so far
    logs,             \* calls of self.logger.handle so far
    err,              \* the exception raised, "none" when none
    errAt,            \* Len(log) when the exception was raised
    xfers             \* transmit/receive calls since cs.status was last set
                      \* to 0, counted as 0, 1, more

vars == <<pc, owf_serial, firmware, stat_ok, open_ok, scale, chunk_size,
          start_chunk_addr, firmware_size, nb_of_chunks, cs, status, reads,
          slept, it, sector_nb, chunk_addr, data, pos, ctx, log, logs, err,
          errAt, xfers>>

\* ------------------------------------------------------------ helpers
RECURSIVE Pow2(_)
Pow2(n) == IF n = 0 THEN 1 ELSE 2 * Pow2(n - 1)

Min(a, b) == IF a < b THEN a ELSE b

\* math.ceil(a / b) for a >= 0, b >= 1
Ceil(a, b) == (a + b - 1) \div b

\* the image of n units: unit k (from 0) has content k mod 251
Image(n) == [k \in 1..n |-> (k - 1) % 251]

\* a byte count of v units as two 16-bit-based words <<hi, lo>>:
\* v * 2^e = hi * 65536 + lo, 0 <= lo < 65536
AddrWords(v, e) ==
    IF e >= 16 THEN <<v * Pow2(e - 16), 0>>
    ELSE <<(v * Pow2(e)) \div 65536, (v * Pow2(e)) % 65536>>

\* struct.pack(">L", addr) accepts 0 <= addr <= 0xFFFFFFFF only
StructPackOK_unchecked(w) == TRUE

StructPackOK(w) == w[1] >= 0 /\ w[1] < 65536

\* struct.pack(">L", addr): four bytes, most significant first
PackL(w) == <<(w[1] \div 256) % 256, w[1] % 256, w[2] \div 256, w[2] % 256>>

\* struct.pack(">L", addr)[1:]
AddrBytes_first3(w) == SubSeq(PackL(w), 1, 3)
AddrBytes(w) == Tail(PackL(w))

\* b"\x02" + (struct.pack(">L", addr)[1:])
ProgramHeader(w) == <<OP_PP>> \o AddrBytes(w)

\* f.read(n) at position p of a file holding f: the bytes up to the end of
\* the file, at most n, not padded
FileRead_padded(f, p, n) ==
    SubSeq(f, p + 1, Min(p + n, Len(f))) \o [k \in 1..(n - (Min(p + n, Len(f)) - p)) |-> 0]
FileRead(f, p, n) == SubSeq(f, p + 1, Min(p + n, Len(f)))

\* the test of the poll loop: while status != b"\x00"
StillBusy(st) == st # 0

\* "%3.1f" of m / d: tenths, rounded half to even
RoundTenths(m, d) ==
    LET q == (10 * m) \div d
        r == (10 * m) % d
    IN  IF 2 * r > d \/ (2 * r = d /\ q % 2 = 1) THEN q + 1 ELSE q

\* _sizeof_fmt on m * 1024^q / d bytes, after k divisions by 1024
RECURSIVE SizeofLoop(_, _, _, _)
SizeofLoop(m, q, d, k) ==
    IF k = 8 THEN [tenths |-> RoundTenths(m, d), unit |-> 8]
    ELSE IF m = 0 \/ (q = 0 /\ m < 1024 * d)
         THEN [tenths |-> RoundTenths(m, d), unit |-> k]
         ELSE IF q > 0 THEN SizeofLoop(m, q - 1, d, k + 1)
              ELSE SizeofLoop(m, 0, d * 1024, k + 1)

\* self._sizeof_fmt(num) for num = v * 2^e bytes
SizeofFmt(v, e) == SizeofLoop(v * Pow2(e % 10), e \div 10, 1, 0)

\* one SPI transaction: the bytes of its first transmit, and for a page
\* program the arguments of write_flash and whether the data were sent
Txn(bytes) == [tx |-> bytes, sector |-> 0, addr |-> 0, data |-> <<>>, sent |-> TRUE]

Msg(level, text, arg) == [level |-> level, text |-> text, arg |-> arg]

\* an exception is raised: control goes to the except clause of
\* writing_process
Raise(e) ==
    /\ pc' = "except"
    /\ err' = e
    /\ errAt' = Len(log)

NoRaise == UNCHANGED <<err, errAt>>

\* a transmit or a receive went through
Transfer == xfers' = IF xfers < 2 THEN xfers + 1 ELSE 2

Inputs == <<firmware, stat_ok, open_ok, scale, chunk_size, start_chunk_addr>>
Poll == <<status, reads, slept>>
Loop == <<it, sector_nb, chunk_addr, data, pos>>
Sizes == <<firmware_size, nb_of_chunks>>

\* --------------------------------------------------------------- Init
Init ==
    /\ pc = "run"
    /\ owf_serial = FALSE
    /\ \/ \E e \in UnitExps, S \in 0..MaxSize, C \in 1..MaxChunk :
             /\ scale = e
             /\ firmware = Image(S)
             /\ chunk_size = C
       \/ /\ scale = 0
          /\ firmware = Image(600)
          /\ chunk_size = DefaultChunkSize
    /\ start_chunk_addr \in 0..MaxStart
    /\ stat_ok \in BOOLEAN
    /\ open_ok \in BOOLEAN
    /\ firmware_size = 0
    /\ nb_of_chunks = 0
    /\ cs = -1
    /\ status = 0
    /\ reads = 0
    /\ slept = FALSE
    /\ it = 0
    /\ sector_nb = 0
    /\ chunk_addr = 0
    /\ data = <<>>
    /\ pos = 0
    /\ ctx = "none"
    /\ log = <<>>
    /\ logs = <<>>
    /\ err = "none"
    /\ errAt = 0
    /\ xfers = 0


\* ---------------------------------------------------------------- run
\* run: self.connect(); if not self.owf_serial: return
Connect_noreturn ==
    /\ pc = "run"
    /\ owf_serial' \in BOOLEAN
    /\ pc' = "stat"
    /\ UNCHANGED <<Inputs, Sizes, cs, Poll, Loop, ctx, log, logs, err, errAt, xfers>>

Connect ==
    /\ pc = "run"
    /\ \/ /\ owf_serial' = TRUE
          /\ pc' = "stat"
       \/ /\ owf_serial' = FALSE
          /\ pc' = "Returned"
    /\ UNCHANGED <<Inputs, Sizes, cs, Poll, Loop, ctx, log, logs, err, errAt, xfers>>

\* ---------------------------------------------------- writing_process
\* firmware_size = os.stat(firmware).st_size; nb_of_chunks = math.ceil(...)
\* os.stat is outside the try: its OSError leaves writing_process and run
Stat ==
    /\ pc = "stat"
    /\ \/ /\ stat_ok
          /\ firmware_size' = Len(firmware)
          /\ nb_of_chunks' = Ceil(Len(firmware), chunk_size)
          /\ pc' = "setup"
          /\ NoRaise
       \/ /\ ~stat_ok
          /\ pc' = "Raised"
          /\ err' = "oserror"
          /\ errAt' = Len(log)
          /\ UNCHANGED Sizes
    /\ UNCHANGED <<owf_serial, Inputs, cs, Poll, Loop, ctx, log, logs, xfers>>

\* cs = GPIO(...); cs.direction = GPIO.OUTPUT; cs.status = 1; SPI(...);
\* flash_interface.configure(...); then, in the try, self.write_enable(...)
Setup_noenable ==
    /\ pc = "setup"
    /\ cs' = 1
    /\ ctx' = "erase"
    /\ pc' = "log_erasing"
    /\ UNCHANGED <<owf_serial, Inputs, Sizes, Poll, Loop, log, logs, err, errAt, xfers>>

Setup ==
    /\ pc = "setup"
    /\ cs' = 1
    /\ ctx' = "erase"
    /\ pc' = "we_cs0"
    /\ UNCHANGED <<owf_serial, Inputs, Sizes, Poll, Loop, log, logs, err, errAt, xfers>>

\* ------------------------------------------------------- write_enable
WriteEnableCs0 ==
    /\ pc = "we_cs0"
    /\ cs' = 0
    /\ xfers' = 0
    /\ pc' = "we_tx"
    /\ UNCHANGED <<owf_serial, Inputs, Sizes, Poll, Loop, ctx, log, logs, err, errAt>>

WriteEnableTx ==
    /\ pc = "we_tx"
    /\ \/ /\ log' = Append(log, Txn(<<OP_WREN>>))
          /\ pc' = "we_cs1"
          /\ NoRaise
          /\ Transfer
       \/ /\ Raise("transport")
          /\ UNCHANGED xfers
          /\ UNCHANGED log
    /\ UNCHANGED <<owf_serial, Inputs, Sizes, cs, Poll, Loop, ctx, logs>>

\* cs.status = 1 and return: to line 116 of writing_process, or to line 85
\* of write_flash
WriteEnableCs1 ==
    /\ pc = "we_cs1"
    /\ cs' = 1
    /\ pc' = IF ctx = "erase" THEN "log_erasing" ELSE "wf_cs0"
    /\ UNCHANGED <<owf_serial, Inputs, Sizes, Poll, Loop, ctx, log, logs, err, errAt, xfers>>

\* self.logger.handle("Erasing flash...", INFO); self.erase(...)
LogErasing_skip ==
    /\ pc = "log_erasing"
    /\ logs' = Append(logs, Msg("INFO", "Erasing flash...", <<>>))
    /\ pc' = IF start_chunk_addr = 0 THEN "er_cs0" ELSE "log_writing"
    /\ UNCHANGED <<owf_serial, Inputs, Sizes, cs, Poll, Loop, ctx, log, err, errAt, xfers>>

LogErasing ==
    /\ pc = "log_erasing"
    /\ logs' = Append(logs, Msg("INFO", "Erasing flash...", <<>>))
    /\ pc' = "er_cs0"
    /\ UNCHANGED <<owf_serial, Inputs, Sizes, cs, Poll, Loop, ctx, log, err, errAt, xfers>>

\* -------------------------------------------------------------- erase
EraseCs0 ==
    /\ pc = "er_cs0"
    /\ cs' = 0
    /\ xfers' = 0
    /\ pc' = "er_tx"
    /\ UNCHANGED <<owf_serial, Inputs, Sizes, Poll, Loop, ctx, log, logs, err, errAt>>

EraseTx ==
    /\ pc = "er_tx"
    /\ \/ /\ log' = Append(log, Txn(<<OP_CE>>))
          /\ pc' = "er_cs1"
          /\ NoRaise
          /\ Transfer
       \/ /\ Raise("transport")
          /\ UNCHANGED xfers
          /\ UNCHANGED log
    /\ UNCHANGED <<owf_serial, Inputs, Sizes, cs, Poll, Loop, ctx, logs>>

\* cs.status = 1; self.wait_status(...)
EraseCs1_held ==
    /\ pc = "er_cs1"
    /\ pc' = "ws_cs0"
    /\ UNCHANGED <<owf_serial, Inputs, Sizes, cs, Poll, Loop, ctx, log, logs, err, errAt, xfers>>

EraseCs1 ==
    /\ pc = "er_cs1"
    /\ cs' = 1
    /\ pc' = "ws_cs0"
    /\ UNCHANGED <<owf_serial, Inputs, Sizes, Poll, Loop, ctx, log, logs, err, errAt, xfers>>

\* self.logger.handle("Done!", SUCCESS); back in writing_process
EraseDone ==
    /\ pc = "er_done"
    /\ logs' = Append(logs, Msg("SUCCESS", "Done!", <<>>))
    /\ pc' = "log_writing"
    /\ UNCHANGED <<owf_serial, Inputs, Sizes, cs, Poll, Loop, ctx, log, err, errAt, xfers>>

\* -------------------------------------------------------- wait_status
WaitCs0 ==
    /\ pc = "ws_cs0"
    /\ cs' = 0
    /\ xfers' = 0
    /\ reads' = 0
    /\ slept' = FALSE
    /\ pc' = "ws_tx"
    /\ UNCHANGED <<owf_serial, Inputs, Sizes, status, Loop, ctx, log, logs, err, errAt>>

WaitTx ==
    /\ pc = "ws_tx"
    /\ \/ /\ log' = Append(log, Txn(<<OP_RDSR>>))
          /\ pc' = "ws_rx1"
          /\ NoRaise
          /\ Transfer
       \/ /\ Raise("transport")
          /\ UNCHANGED xfers
          /\ UNCHANGED log
    /\ UNCHANGED <<owf_serial, Inputs, Sizes, cs, Poll, Loop, ctx, logs>>

\* one more receive, counted up to MaxPolls
CountRead == reads' = IF reads < MaxPolls THEN reads + 1 ELSE reads

\* status = spi_instance.receive(1), then the first test of the while
WaitRx1 ==
    /\ pc = "ws_rx1"
    /\ \/ /\ \E st \in StatusBytes :
                /\ status' = st
                /\ pc' = IF StillBusy(st) THEN "ws_rx2" ELSE "ws_cs1"
          /\ CountRead
          /\ slept' = FALSE
          /\ NoRaise
          /\ Transfer
       \/ /\ Raise("transport")
          /\ UNCHANGED xfers
          /\ UNCHANGED Poll
    /\ UNCHANGED <<owf_serial, Inputs, Sizes, cs, Loop, ctx, log, logs>>

\* the loop body: status = spi_instance.receive(1)
WaitRx2 ==
    /\ pc = "ws_rx2"
    /\ \/ /\ status' \in StatusBytes
          /\ CountRead
          /\ slept' = FALSE
          /\ pc' = "ws_sleep"
          /\ NoRaise
          /\ Transfer
       \/ /\ Raise("transport")
          /\ UNCHANGED xfers
          /\ UNCHANGED Poll
    /\ UNCHANGED <<owf_serial, Inputs, Sizes, cs, Loop, ctx, log, logs>>

\* time.sleep(0.01), then the test of the while
WaitSleep ==
    /\ pc = "ws_sleep"
    /\ slept' = TRUE
    /\ pc' = IF StillBusy(status) THEN "ws_rx2" ELSE "ws_cs1"
    /\ UNCHANGED <<owf_serial, Inputs, Sizes, cs, status, reads, Loop, ctx, log, logs, err, errAt, xfers>>

\* cs.status = 1 and return: to line 72 of erase, or to the for loop
WaitCs1_held ==
    /\ pc = "ws_cs1"
    /\ pc' = IF ctx = "erase" THEN "er_done" ELSE "loop"
    /\ UNCHANGED <<owf_serial, Inputs, Sizes, cs, Poll, Loop, ctx, log, logs, err, errAt, xfers>>

WaitCs1 ==
    /\ pc = "ws_cs1"
    /\ cs' = 1
    /\ pc' = IF ctx = "erase" THEN "er_done" ELSE "loop"
    /\ UNCHANGED <<owf_serial, Inputs, Sizes, Poll, Loop, ctx, log, logs, err, errAt, xfers>>

\* ------------------------------------------- writing_process, the loop
\* self.logger.handle("Writing {} bytes to the flash memory...", INFO)
LogWriting ==
    /\ pc = "log_writing"
    /\ logs' = Append(logs, Msg("INFO", "Writing bytes", <<firmware_size, scale>>))
    /\ pc' = "open"
    /\ UNCHANGED <<owf_serial, Inputs, Sizes, cs, Poll, Loop, ctx, log, err, errAt, xfers>>

\* with open(firmware, "rb") as f: for sector_nb in range(start_chunk_addr,
\* nb_of_chunks): the file is opened at position 0 and the range is built
Open ==
    /\ pc = "open"
    /\ \/ /\ open_ok
          /\ pos' = 0
          /\ it' = start_chunk_addr
          /\ pc' = "loop"
          /\ NoRaise
       \/ /\ ~open_ok
          /\ Raise("oserror")
          /\ UNCHANGED <<pos, it>>
    /\ UNCHANGED <<owf_serial, Inputs, Sizes, cs, Poll, sector_nb, chunk_addr, data, ctx, log, logs, xfers>>

\* the for statement takes the next value of the range, or ends the loop
LoopNext_inclusive ==
    /\ pc = "loop"
    /\ \/ /\ it <= nb_of_chunks
          /\ sector_nb' = it
          /\ it' = it + 1
          /\ pc' = "body"
       \/ /\ it > nb_of_chunks
          /\ pc' = "log_success"
          /\ UNCHANGED <<sector_nb, it>>
    /\ UNCHANGED <<owf_serial, Inputs, Sizes, cs, Poll, chunk_addr, data, pos, ctx, log, logs, err, errAt, xfers>>

LoopNext ==
    /\ pc = "loop"
    /\ \/ /\ it < nb_of_chunks
          /\ sector_nb' = it
          /\ it' = it + 1
          /\ pc' = "body"
       \/ /\ it >= nb_of_chunks
          /\ pc' = "log_success"
          /\ UNCHANGED <<sector_nb, it>>
    /\ UNCHANGED <<owf_serial, Inputs, Sizes, cs, Poll, chunk_addr, data, pos, ctx, log, logs, err, errAt, xfers>>

\* chunk_addr = sector_nb * chunk_size
ChunkAddrOf(nb, size) == nb * size

\* chunk_addr = ...; data = f.read(chunk_size); self.write_flash(...), whose
\* first statement is self.write_enable(...)
ReadChunk ==
    /\ pc = "body"
    /\ chunk_addr' = ChunkAddrOf(sector_nb, chunk_size)
    /\ data' = FileRead(firmware, pos, chunk_size)
    /\ pos' = pos + Len(FileRead(firmware, pos, chunk_size))
    /\ ctx' = "program"
    /\ pc' = "we_cs0"
    /\ UNCHANGED <<owf_serial, Inputs, Sizes, cs, Poll, it, sector_nb, log, logs, err, errAt, xfers>>

\* -------------------------------------------------------- write_flash
WriteFlashCs0 ==
    /\ pc = "wf_cs0"
    /\ cs' = 0
    /\ xfers' = 0
    /\ pc' = "wf_tx1"
    /\ UNCHANGED <<owf_serial, Inputs, Sizes, Poll, Loop, ctx, log, logs, err, errAt>>

\* spi_instance.transmit(b"\x02" + (struct.pack(">L", addr)[1:])): the
\* argument is built first, and struct.pack raises struct.error out of range
WriteFlashTxHeader ==
    /\ pc = "wf_tx1"
    /\ LET w == AddrWords(chunk_addr, scale)
       IN  \/ /\ ~StructPackOK(w)
              /\ Raise("struct")
              /\ UNCHANGED xfers
              /\ UNCHANGED log
           \/ /\ StructPackOK(w)
              /\ log' = Append(log, [tx |-> ProgramHeader(w), sector |-> sector_nb,
                                     addr |-> chunk_addr, data |-> <<>>, sent |-> FALSE])
              /\ pc' = "wf_tx2"
              /\ NoRaise
              /\ Transfer
           \/ /\ StructPackOK(w)
              /\ Raise("transport")
              /\ UNCHANGED xfers
              /\ UNCHANGED log
    /\ UNCHANGED <<owf_serial, Inputs, Sizes, cs, Poll, Loop, ctx, logs>>

\* spi_instance.transmit(data)
WriteFlashTxData ==
    /\ pc = "wf_tx2"
    /\ \/ /\ log' = [log EXCEPT ![Len(log)].data = data, ![Len(log)].sent = TRUE]
          /\ pc' = "wf_cs1"
          /\ NoRaise
          /\ Transfer
       \/ /\ Raise("transport")
          /\ UNCHANGED xfers
          /\ UNCHANGED log
    /\ UNCHANGED <<owf_serial, Inputs, Sizes, cs, Poll, Loop, ctx, logs>>

\* cs.status = 1; self.wait_status(...)
WriteFlashCs1_nowait ==
    /\ pc = "wf_cs1"
    /\ cs' = 1
    /\ pc' = "loop"
    /\ UNCHANGED <<owf_serial, Inputs, Sizes, Poll, Loop, ctx, log, logs, err, errAt, xfers>>

WriteFlashCs1 ==
    /\ pc = "wf_cs1"
    /\ cs' = 1
    /\ pc' = "ws_cs0"
    /\ UNCHANGED <<owf_serial, Inputs, Sizes, Poll, Loop, ctx, log, logs, err, errAt, xfers>>

\* ------------------------------------- writing_process, the two endings
\* self.logger.handle("Successfully write {} to flash memory.".format(
\* self._sizeof_fmt(firmware_size)), SUCCESS)
LogSuccess ==
    /\ pc = "log_success"
    /\ logs' = Append(logs, Msg("SUCCESS", "Successfully write", SizeofFmt(firmware_size, scale)))
    /\ pc' = "Done"
    /\ UNCHANGED <<owf_serial, Inputs, Sizes, cs, Poll, Loop, ctx, log, err, errAt, xfers>>

\* except (Exception, ValueError) as err: self.logger.handle(err, ERROR)
Except_retry ==
    /\ pc = "except"
    /\ logs' = Append(logs, Msg("ERROR", err, <<>>))
    /\ ctx' = "erase"
    /\ pc' = IF Len(logs) = 0 THEN "we_cs0" ELSE "Failed"
    /\ UNCHANGED <<owf_serial, Inputs, Sizes, cs, Poll, Loop, log, err, errAt, xfers>>

Except ==
    /\ pc = "except"
    /\ logs' = Append(logs, Msg("ERROR", err, <<>>))
    /\ pc' = "Failed"
    /\ UNCHANGED <<owf_serial, Inputs, Sizes, cs, Poll, Loop, ctx, log, err, errAt, xfers>>

\* ---------------------------------------------------------------- Next
Next ==
    \/ Connect
    \/ Stat
    \/ Setup
    \/ WriteEnableCs0
    \/ WriteEnableTx
    \/ WriteEnableCs1
    \/ LogErasing
    \/ EraseCs0
    \/ EraseTx
    \/ EraseCs1
    \/ EraseDone
    \/ WaitCs0
    \/ WaitTx
    \/ WaitRx1
    \/ WaitRx2
    \/ WaitSleep
    \/ WaitCs1
    \/ LogWriting
    \/ Open
    \/ LoopNext
    \/ ReadChunk
    \/ WriteFlashCs0
    \/ WriteFlashTxHeader
    \/ WriteFlashTxData
    \/ WriteFlashCs1
    \/ LogSuccess
    \/ Except

Spec == Init /\ [][Next]_vars

\* the interpreter goes on executing the session: a step that can be taken
\* is taken
FairSpec == Spec /\ WF_vars(Next)

\* --------------------------------------------------- reading the state
\* the states of the Programming Driver
Phase ==
    CASE pc = "run" -> "Idle"
      [] pc \in {"stat", "setup"} -> "Connecting"
      [] pc = "Returned" -> "Aborted"
      [] pc = "Done" -> "Done"
      [] pc \in {"except", "Failed", "Raised"} -> "Failed"
      [] ctx = "erase" -> "Erasing"
      [] OTHER -> "Programming"

Op(t) == t.tx[1]
IsProgram(t) == Op(t) = OP_PP

\* the places in log of the page programs / of the chip erases
Programs == {k \in 1..Len(log) : Op(log[k]) = OP_PP}
Erases == {k \in 1..Len(log) : Op(log[k]) = OP_CE}

TypeOK ==
    /\ pc \in {"run", "Returned", "stat", "Raised", "setup", "we_cs0", "we_tx", "we_cs1",
               "log_erasing", "er_cs0", "er_tx", "er_cs1", "er_done", "ws_cs0", "ws_tx",
               "ws_rx1", "ws_rx2", "ws_sleep", "ws_cs1", "log_writing", "open", "loop",
               "body", "wf_cs0", "wf_tx1", "wf_tx2", "wf_cs1", "log_success", "Done",
               "except", "Failed"}
    /\ cs \in {-1, 0, 1}
    /\ status \in StatusBytes
    /\ reads \in 0..MaxPolls
    /\ err \in {"none", "transport", "struct", "oserror"}

\* ============================================================= claims
\* what the claims are stated with
S_ == Len(firmware)
C_ == chunk_size
s_ == start_chunk_addr

\* ceil(a / b) of integers, b >= 1, a of either sign
CeilInt(a, b) == -((-a) \div b)

Max0(a) == IF a < 0 THEN 0 ELSE a

\* the page programs whose data were transmitted
SentPrograms == {k \in Programs : log[k].sent}

\* how many page programs were issued before place k of log
Rank(k) == Cardinality({p \in Programs : p < k})

LastProgram == CHOOSE k \in Programs : \A p \in Programs : p <= k

\* the image content of chunk i: offsets [i*C, min((i+1)*C, S))
ImageChunk(i) == SubSeq(firmware, i * C_ + 1, Min((i + 1) * C_, S_))

\* the data of all page programs of a log, in order
RECURSIVE ProgramData(_)
ProgramData(l) ==
    IF l = <<>> THEN <<>>
    ELSE (IF IsProgram(Head(l)) THEN Head(l).data ELSE <<>>) \o ProgramData(Tail(l))

\* the opcodes of a log, in order
Ops(l) == [k \in 1..Len(l) |-> Op(l[k])]

\* three bytes read as a big-endian integer
Decode3(b) == b[1] * 65536 + b[2] * 256 + b[3]

\* (v * 2^e) mod 2^24
Trunc24(v, e) == IF e >= 24 THEN 0 ELSE (v % Pow2(24 - e)) * Pow2(e)

ErrorLogs == {k \in 1..Len(logs) : logs[k].level = "ERROR"}
SuccessLogs == {k \in 1..Len(logs) : logs[k].text = "Successfully write"}

InPoll == pc \in {"ws_rx1", "ws_rx2", "ws_sleep", "ws_cs1"}

\* ------------------------------------------------------------------ C1
\* C1: a session that ends without a failure has issued exactly
\* ceil((S - s*C) / C) page programs (a count, so at least 0), and the data
\* of the last one has length S mod C, or C when S mod C = 0.
C1_ProgramCountAndLastLength ==
    pc = "Done" =>
        /\ Cardinality(Programs) = Max0(CeilInt(S_ - s_ * C_, C_))
        /\ Programs # {} =>
              Len(log[LastProgram].data) = (IF S_ % C_ = 0 THEN C_ ELSE S_ % C_)

\* ------------------------------------------------------------------ C2
\* C2: every page program in the history is directly preceded by a write
\* enable; it is directly followed by a read-status poll, and while it is
\* the last transaction the session is still inside write_flash before the
\* poll's transmit, or has failed there; during a poll, from after the 0x05
\* transmit to the deassert, chip select is low, and the deassert is reached
\* only with a status whose busy bit is clear.
C2_ProgramFramedByEnableAndPoll ==
    /\ \A k \in Programs :
          /\ k > 1
          /\ Op(log[k - 1]) = OP_WREN
          /\ k < Len(log) => Op(log[k + 1]) = OP_RDSR
          /\ k = Len(log) => pc \in {"wf_tx2", "wf_cs1", "ws_cs0", "ws_tx", "except", "Failed"}
    /\ InPoll => cs = 0 /\ Op(log[Len(log)]) = OP_RDSR
    /\ pc = "ws_cs1" => reads >= 1 /\ status % 2 = 0

C2_Witness ==
    /\ pc = "ws_cs1"
    /\ ctx = "program"
    /\ reads >= 2
    /\ Len(log) >= 2
    /\ Op(log[Len(log) - 1]) = OP_PP

\* ------------------------------------------------------------------ C3
\* C3: the chip erase is never issued twice; every page program comes after
\* a chip erase; and once the session is past the erase (opening the image,
\* in the loop, programming, Done) exactly one chip erase has been issued,
\* whatever the starting chunk index.
C3_EraseOnceBeforePrograms ==
    /\ Cardinality(Erases) <= 1
    /\ \A p \in Programs : \E e \in Erases : e < p
    /\ (pc \in {"log_writing", "open", "loop", "body", "log_success", "Done"} \/ ctx = "program")
          => Cardinality(Erases) = 1

C3_Witness ==
    /\ pc = "Done"
    /\ start_chunk_addr > 0
    /\ Programs # {}
    /\ Cardinality(Erases) = 1

\* ------------------------------------------------------------------ C4
\* C4: the poll loop goes on exactly while bit 0 of the last status byte is
\* set: it is about to receive again only after a status with bit 0 = 1, and
\* it leaves the loop at a status with bit 0 = 0, whatever bits 1..7.
C4_PollStopsOnBusyBitClear ==
    /\ pc = "ws_rx2" => status % 2 = 1
    /\ pc = "ws_cs1" => status % 2 = 0

\* ------------------------------------------------------------------ C5
\* C5: the three bytes transmitted after opcode 0x02 for chunk i are bytes,
\* and read as a big-endian integer they give (i * chunk size) mod 2^24.
C5_AddressBigEndian24 ==
    \A k \in Programs :
        /\ Len(log[k].tx) = 4
        /\ \A j \in 2..4 : log[k].tx[j] \in 0..255
        /\ Decode3(Tail(log[k].tx)) = Trunc24(log[k].sector * C_, scale)

\* an address of 2^24 or more was transmitted, truncated
C5_Witness ==
    \E k \in Programs :
        /\ scale = 23
        /\ log[k].sector * C_ = 3
        /\ Tail(log[k].tx) = <<128, 0, 0>>

\* ------------------------------------------------------------------ C6
\* C6: with starting chunk 0, the j-th page program (j from 0) is issued
\* for address j*C and carries exactly the image bytes
\* [j*C, min((j+1)*C, S)), not padded; at Done there are ceil(S/C) of them
\* and their data, in order, are the image; for S = 600, C = 256 these are
\* three, at 0x000000, 0x000100, 0x000200, of 256, 256 and 88 bytes.
C6_SequentialImageLayout ==
    s_ = 0 =>
        /\ \A k \in Programs :
              /\ log[k].addr = Rank(k) * C_
              /\ log[k].sector = Rank(k)
              /\ log[k].sent => log[k].data = ImageChunk(Rank(k))
        /\ pc = "Done" =>
              /\ ProgramData(log) = firmware
              /\ Cardinality(Programs) = Ceil(S_, C_)
        /\ (pc = "Done" /\ S_ = 600 /\ C_ = 256 /\ scale = 0) =>
              /\ [k \in 1..3 |-> log[3 * k + 2].tx] =
                    <<(<<2, 0, 0, 0>>), (<<2, 0, 1, 0>>), (<<2, 0, 2, 0>>)>>
              /\ [k \in 1..3 |-> Len(log[3 * k + 2].data)] = <<256, 256, 88>>

C6_Witness ==
    /\ pc = "Done"
    /\ s_ = 0
    /\ S_ = 600
    /\ C_ = 256
    /\ Cardinality(SentPrograms) = 3

\* ------------------------------------------------------------------ C7
\* C7: once a transmit or receive has raised, no SPI transaction is issued,
\* chip select and the poll state are not touched and nothing is retried:
\* the only step left is the handler's, to Failed, where the history is the
\* one at the failure, the error has been logged exactly once, at error
\* severity, and no success message for the write exists; a failure during
\* the erase leaves no page program.
C7_FailedState ==
    (err = "transport") =>
        /\ pc \in {"except", "Failed"}
        /\ Len(log) = errAt
        /\ SuccessLogs = {}
        /\ ctx = "erase" => Programs = {}
        /\ pc = "except" => ErrorLogs = {}
        /\ pc = "Failed" =>
              /\ Cardinality(ErrorLogs) = 1
              /\ logs[Len(logs)] = Msg("ERROR", "transport", <<>>)

C7_FailedStep ==
    (err = "transport") =>
        /\ log' = log
        /\ cs' = cs
        /\ Poll' = Poll
        /\ pc' = "Failed"

C7_TransportFailureEndsSession == [](C7_FailedState) /\ [][C7_FailedStep]_vars

\* the second status receive of the erase poll raised
C7_Witness ==
    /\ pc = "Failed"
    /\ err = "transport"
    /\ ctx = "erase"
    /\ Len(log) = 3
    /\ Op(log[3]) = OP_RDSR
    /\ reads = 1
    /\ StillBusy(status)

\* ------------------------------------------------------------------ C8
\* C8: for an empty image no page program is ever issued; when the image is
\* opened the write enable, the chip erase and a poll that ended ready have
\* been issued; and at Done the history is exactly write enable, chip
\* erase, poll, chip select is high and the message reports 0.0 bytes.
C8_EmptyImage ==
    S_ = 0 =>
        /\ Programs = {}
        /\ pc \in {"open", "loop", "log_success", "Done"} =>
              /\ Ops(log) = <<OP_WREN, OP_CE, OP_RDSR>>
              /\ status = 0
              /\ cs = 1
        /\ pc = "Done" =>
              /\ logs[Len(logs)] =
                    Msg("SUCCESS", "Successfully write", [tenths |-> 0, unit |-> 0])
              /\ Cardinality(SuccessLogs) = 1
              /\ ErrorLogs = {}

C8_Witness ==
    /\ pc = "Done"
    /\ S_ = 0
    /\ Ops(log) = <<OP_WREN, OP_CE, OP_RDSR>>

\* ------------------------------------------------------------------ C9
\* C9: whenever the firmware file turns out not to be accessible (os.stat
\* or open raises), no chip erase has been transmitted.
C9_FileErrorBeforeErase ==
    err = "oserror" => Erases = {}

\* ----------------------------------------------------------------- C10
\* C10: the page program issued for chunk i carries the image bytes at
\* offsets [i*C, min((i+1)*C, S)), for every starting chunk index.
C10_ChunkDataAtOwnAddress ==
    \A k \in SentPrograms :
        /\ log[k].addr = log[k].sector * C_
        /\ log[k].data = ImageChunk(log[k].sector)

\* ----------------------------------------------------------------- C11
\* C11: at Done the size the success message reports is the sum of the data
\* lengths of the page programs issued (as _sizeof_fmt prints it).
WrittenUnits == Len(ProgramData(log))

C11_ReportedEqualsWritten ==
    pc = "Done" =>
        logs[Len(logs)] = Msg("SUCCESS", "Successfully write", SizeofFmt(WrittenUnits, scale))

\* ----------------------------------------------------------------- C12
\* C12: chip select is high whenever a command is about to assert it (so
\* it was driven high before the first transaction and is never asserted
\* twice in a row); an opcode is transmitted with chip select low as the
\* first transfer since it went low; and chip select is low only inside a
\* command's frame, or after an exception.
AssertPoints == {"we_cs0", "er_cs0", "ws_cs0", "wf_cs0"}
OpcodePoints == {"we_tx", "er_tx", "ws_tx", "wf_tx1"}
FramePoints ==
    {"we_tx", "we_cs1", "er_tx", "er_cs1", "ws_tx", "ws_rx1", "ws_rx2", "ws_sleep",
     "ws_cs1", "wf_tx1", "wf_tx2", "wf_cs1"}

C12_ChipSelectFramesEachCommand ==
    /\ pc \in AssertPoints => cs = 1
    /\ pc \in OpcodePoints => cs = 0 /\ xfers = 0
    /\ pc \in FramePoints \ OpcodePoints => cs = 0 /\ xfers >= 1
    /\ cs = 0 => pc \in FramePoints \cup {"except", "Failed"}
    /\ log # <<>> => cs \in {0, 1}

\* between a page program and its status poll chip select is high
C12_Witness ==
    /\ pc = "ws_cs0"
    /\ ctx = "program"
    /\ cs = 1
    /\ Op(log[Len(log)]) = OP_PP

\* ----------------------------------------------------------------- C13
\* C13: when connect() yields no transport handle, run returns at once:
\* the session is only ever at its start or returned; chip select was never
\* driven, nothing was transmitted, received, logged or raised, the file
\* was not read, and the session is neither Erasing nor Programming.
C13_ConnectionFailureNoSideEffects ==
    (pc # "run" /\ ~owf_serial) =>
        /\ pc = "Returned"
        /\ Phase = "Aborted"
        /\ cs = -1
        /\ xfers = 0
        /\ reads = 0
        /\ log = <<>>
        /\ logs = <<>>
        /\ err = "none"
        /\ firmware_size = 0 /\ nb_of_chunks = 0 /\ pos = 0 /\ data = <<>>

C13_Witness ==
    /\ pc = "Returned"
    /\ ~owf_serial
    /\ Len(firmware) > 0
    /\ stat_ok /\ open_ok

\* ----------------------------------------------------------------- C14
\* C14: within one wait_status call, whenever a status read is about to be
\* issued after an earlier one, a sleep has happened since that earlier one.
C14_SleepBetweenReads ==
    (pc = "ws_rx2" /\ reads >= 1) => slept

\* ----------------------------------------------------------------- C15
\* C15: a wait_status call receives again only after a status that reports
\* busy (bit 0 set), so that with k busy answers and then a ready one it
\* performs k+1 receives; during the call the 0x05 it transmitted is the
\* last transaction and chip select stays low.
C15_ReceiveAgainOnlyAfterBusy ==
    (pc = "ws_rx2" /\ pc' = "ws_sleep") => status % 2 = 1

C15_OnePollTransaction ==
    InPoll => cs = 0 /\ Op(log[Len(log)]) = OP_RDSR /\ xfers >= 1

C15_PollReadsUntilFirstReady ==
    [](C15_OnePollTransaction) /\ [][C15_ReceiveAgainOnlyAfterBusy]_vars

\* ----------------------------------------------------------------- C16
\* the most significant word of the byte address of v units
Hi(v) == AddrWords(v, scale)[1]

\* C16 as stated: with an address beyond 24 bits the session fails, if it
\* does, only from the transport.
C16_OversizedAddressNeverFails ==
    (ctx = "program" /\ Hi(chunk_addr) >= 256 /\ pc \in {"except", "Failed"})
        => err = "transport"

\* C16 amended: every page program issued has an address below 2^32 and
\* carries it modulo 2^24; once the header of an address is out, it is the
\* last transaction; struct.error is raised exactly for an address of 2^32
\* or more, with chip select low, after the write enable and with no page
\* program transmitted for that chunk, and ends the session.
C16_WrapsBelow32BitsFailsAbove ==
    /\ \A k \in Programs :
          /\ Hi(log[k].addr) < 65536
          /\ Decode3(Tail(log[k].tx)) = Trunc24(log[k].addr, scale)
    /\ pc = "wf_tx2" => IsProgram(log[Len(log)]) /\ log[Len(log)].addr = chunk_addr
    /\ (pc = "wf_tx1" /\ Hi(chunk_addr) >= 65536) => ~StructPackOK(AddrWords(chunk_addr, scale))
    /\ err = "struct" =>
          /\ Hi(chunk_addr) >= 65536
          /\ pc \in {"except", "Failed"}
          /\ cs = 0
          /\ errAt = Len(log)
          /\ Op(log[Len(log)]) = OP_WREN
          /\ SuccessLogs = {}

\* addresses of 2^30 .. 3 * 2^30 were programmed, wrapped; 2^32 failed
C16_Witness ==
    /\ pc = "Failed"
    /\ err = "struct"
    /\ \E k \in Programs : Hi(log[k].addr) >= 256

\* ----------------------------------------------------------------- C17
\* a status read by the current wait_status call reports ready (bit 0 clear)
ReadyRead == pc \in {"ws_rx2", "ws_sleep", "ws_cs1"} /\ status % 2 = 0
BusyRead == pc \in {"ws_rx2", "ws_sleep", "ws_cs1"} /\ status % 2 = 1

\* C17, first half: if the device never reports ready (and the session got
\* as far as polling), the session never reaches Done or Failed other than
\* by a transport failure.
C17_BusyDeviceHangs ==
    ([](err # "transport") /\ [](~ReadyRead)) => [](pc \notin {"Done", "Failed"})

\* C17, second half: if nothing fails and every poll eventually reads a
\* ready status, the connected session eventually reaches Done.
C17_ReadyDeviceReachesDone ==
    ([](err = "none") /\ [](pc # "Returned") /\ [](pc = "ws_rx1" => <>ReadyRead))
        => <>(pc = "Done")

\* ----------------------------------------------------------------- C18
\* the opcode at place k of a complete session: write enable, chip erase,
\* poll, then (write enable, page program, poll) repeated
PatternOp(k) ==
    IF k = 1 THEN OP_WREN
    ELSE IF k = 2 THEN OP_CE
    ELSE IF k = 3 THEN OP_RDSR
    ELSE IF k % 3 = 1 THEN OP_WREN
    ELSE IF k % 3 = 2 THEN OP_PP
    ELSE OP_RDSR

CountOp(o) == Cardinality({k \in 1..Len(log) : Op(log[k]) = o})

\* C18: the history always follows the pattern, and at Done, with n page
\* programs, it is complete: 3 + 3n transactions, n+1 write enables, one
\* chip erase, n+1 polls, every page program with its data.
C18_TransactionSequence ==
    /\ \A k \in 1..Len(log) : Op(log[k]) = PatternOp(k)
    /\ pc = "Done" =>
          /\ Len(log) = 3 + 3 * Cardinality(Programs)
          /\ CountOp(OP_WREN) = Cardinality(Programs) + 1
          /\ CountOp(OP_RDSR) = Cardinality(Programs) + 1
          /\ CountOp(OP_CE) = 1
          /\ SentPrograms = Programs

C18_Witness ==
    /\ pc = "Done"
    /\ Cardinality(Programs) = 2
    /\ Len(log) = 9

\* ----------------------------------------------------------------- C19
TransferPoints == {"we_tx", "er_tx", "ws_tx", "ws_rx1", "ws_rx2", "wf_tx1", "wf_tx2"}
Ended == pc \in {"Done", "Failed", "Returned", "Raised"}

\* C19 as stated: transfers only with chip select low; high at Done; a
\* session that ended with chip select low ended in Failed from a transmit
\* or receive that raised.
C19_AssertedOnlyAfterTransportFailure ==
    /\ pc \in TransferPoints => cs = 0
    /\ pc = "Done" => cs = 1
    /\ (Ended /\ cs = 0) => (pc = "Failed" /\ err = "transport")

\* C19 amended: ... ended in Failed from a transmit or receive that raised,
\* or from struct.pack raising in write_flash after chip select was set low.
C19_AssertedOnlyAfterFailureInFrame ==
    /\ pc \in TransferPoints => cs = 0
    /\ pc = "Done" => cs = 1
    /\ (Ended /\ cs = 0) => (pc = "Failed" /\ err \in {"transport", "struct"})
    /\ (pc = "Failed" /\ err \in {"transport", "struct"}) => cs = 0
    /\ (pc = "Failed" /\ err = "oserror") => cs = 1

C19_Witness ==
    /\ pc = "Failed"
    /\ err = "struct"
    /\ cs = 0

\* ----------------------------------------------------------------- C20
\* C20: the data handed to write_flash, and the data of every page program
\* transmitted, have at least 1 and at most chunk_size bytes, for every
\* starting chunk.
C20_ProgramDataNonEmpty ==
    /\ pc \in {"wf_cs0", "wf_tx1", "wf_tx2", "wf_cs1"} => (Len(data) >= 1 /\ Len(data) <= C_)
    /\ \A k \in SentPrograms : Len(log[k].data) >= 1 /\ Len(log[k].data) <= C_

C20_Witness ==
    /\ pc = "Done"
    /\ s_ > 0
    /\ Cardinality(SentPrograms) >= 2

=============================================================================
